---------------------------- MODULE Spec2Model ----------------------------
(***************************************************************************)
(* Model of the QUIC header codec of src/model/quic-header.cc.             *)
(*                                                                         *)
(* A sender builds a QuicHeader with the factories and the setters and     *)
(* Serializes it into a byte buffer; a receiver default-constructs a       *)
(* QuicHeader, may pre-set its packet-number length, and Deserializes the  *)
(* buffer.  Failed NS_ASSERTs and NS_FATAL_ERROR stop the process.         *)
(*                                                                         *)
(* TLC's integers are 32-bit signed, so a uint32_t (and a                  *)
(* SequenceNumber32) is kept as its two 16-bit halves [hi, lo] and a       *)
(* uint64_t as its two 32-bit words [hi, lo]; all arithmetic on them is    *)
(* done on the halves.  NS_LOG_INFO arguments are not evaluated (logging   *)
(* is off by default).                                                     *)
(***************************************************************************)
EXTENDS Integers, Sequences, FiniteSets, TLC

VARIABLES hdr, buf, rx, pc, res

vars == <<hdr, buf, rx, pc, res>>

---------------------------------------------------------------------------
(* Enumerations of quic-header.h, in the order TypeToString lists them.    *)

SHORT == 0
LONG == 1

INITIAL == 0
ZRTT_PROTECTED == 1
HANDSHAKE == 2
RETRY == 3
VERSION_NEGOTIATION == 4
NONE == 5

ONE_OCTECT == 0
TWO_OCTECTS == 1
FOUR_OCTECTS == 2

---------------------------------------------------------------------------
(* Bounds of the model and the sample inputs.                              *)

\* SetType is tried with every type byte 0..MaxTypeByte.
MaxTypeByte == 5
\* SetPacketLength is tried with every length code 0..MaxPacketLength.
MaxPacketLength == 3
\* Number of bytes of the buffer region handed to Serialize/Deserialize.
BufSize == 27

\* The uint32_t of value n (n < 2^31), and the uint64_t of words hi and lo.
U32(n) == [hi |-> n \div 65536, lo |-> n % 65536]
U64(hi, lo) == [hi |-> U32(hi), lo |-> U32(lo)]

\* v < n, for a uint32_t v and a literal n
U32Less(v, n) ==
    \/ v.hi < n \div 65536
    \/ v.hi = n \div 65536 /\ v.lo < n % 65536

TypeBytes == 0..MaxTypeByte
PacketLengths == 0..MaxPacketLength
Bits == {0, 1}
Versions == {U32(0), U32(256)}
ConnIds == {U64(0, 0), U64(256, 0)}
PacketNumbers == {U32(255), U32(256), U32(65535), U32(65536)}
\* Flags bytes tried on a fresh header, and the sample tried on any other.
AllFlagBytes == 0..255
FlagBytes == {0, 64, 67, 100, 128, 192, 208, 224, 240, 255}

Pad(s) == s \o [i \in 1..(BufSize - Len(s)) |-> 0]

\* Bodies that follow the flags byte of an incoming buffer.
Bodies ==
    { Pad(<<>>),
      \* connection id 0x0000010000000000, version 256, packet number 256
      Pad(<<0, 0, 1, 0, 0, 0, 0, 0, 0, 0, 1, 0, 0, 0, 1, 0>>) }

---------------------------------------------------------------------------
(* Buffer::Iterator primitives used by the codec (big-endian).             *)

WriteU8(v) == <<v % 256>>

WriteHtonU16(v) == <<(v \div 256) % 256, v % 256>>

WriteHtonU32(v) == WriteHtonU16(v.hi) \o WriteHtonU16(v.lo)

WriteHtonU64(v) == WriteHtonU32(v.hi) \o WriteHtonU32(v.lo)

ReadU8(b, pos) == b[pos + 1]

ReadNtohU16(b, pos) == b[pos + 1] * 256 + b[pos + 2]

ReadNtohU32(b, pos) ==
    [hi |-> ReadNtohU16(b, pos), lo |-> ReadNtohU16(b, pos + 2)]

ReadNtohU64(b, pos) ==
    [hi |-> ReadNtohU32(b, pos), lo |-> ReadNtohU32(b, pos + 4)]

---------------------------------------------------------------------------
(* The header object.                                                      *)

QuicHeader ==
    [ m_form |-> SHORT,
      m_fixed |-> 1,
      m_type |-> 0,
      m_s |-> 0,
      m_k |-> 0,
      m_packetLength |-> 0,
      m_version |-> U32(0),
      m_DCIDLength |-> 0,
      m_connectionId |-> U64(0, 0),
      m_SCIDLength |-> 0,
      m_SCID |-> U64(0, 0),
      m_packetNumber |-> U32(0),
      m_c |-> FALSE ]

IsShort(h) == h.m_form = SHORT

IsLong(h) == h.m_form = LONG

IsVersionNegotiation(h) == h.m_version = U32(0)

HasVersion(h) == IsLong(h)

HasConnectionId(h) == ~(IsShort(h) /\ h.m_c = FALSE)

GetDCIDLen(h) == h.m_DCIDLength

GetSCIDLen(h) == h.m_SCIDLength

\* Result of a call that can hit NS_ASSERT / NS_FATAL_ERROR.
Ok(v) == [status |-> "ok", value |-> v]
Fail(kind) == [status |-> kind, value |-> 0]

\* Width in bits; NS_FATAL_ERROR("Invalid conditions") when no case matches.
GetPacketNumLen(h) ==
    IF IsLong(h) THEN Ok(32)
    ELSE CASE h.m_packetLength = ONE_OCTECT -> Ok(8)
           [] h.m_packetLength = TWO_OCTECTS -> Ok(16)
           [] h.m_packetLength = FOUR_OCTECTS -> Ok(32)
           [] OTHER -> Fail("UnsupportedPacketNumberWidth")

CalculateHeaderLength(h) ==
    IF IsLong(h)
    THEN Ok((8 + 32 + 8 + 8 + GetDCIDLen(h) + GetSCIDLen(h)) \div 8)
    ELSE LET w == GetPacketNumLen(h) IN
         IF w.status # "ok" THEN w
         ELSE Ok((8 + 160 * (IF HasConnectionId(h) THEN 1 ELSE 0) + w.value) \div 8)

GetSerializedSize(h) ==
    IF ~(h.m_type # NONE \/ h.m_form = SHORT)
    THEN Fail("UnassignedLongType")
    ELSE CalculateHeaderLength(h)

---------------------------------------------------------------------------
(* Setters (pure: header in, header out).                                  *)

SetType(h, typeByte) == [h EXCEPT !.m_type = typeByte]

SetPacketLength(h, packetLength) == [h EXCEPT !.m_packetLength = packetLength]

SetFormat(h, form) == [h EXCEPT !.m_form = form]

SetConnectionID(h, connID) ==
    [h EXCEPT !.m_connectionId = connID,
              !.m_c = IF IsShort(h) THEN TRUE ELSE @]

\* Faulty variant: the width boundaries are off by one.
SetPacketNumber_offByOne(h, packNum) ==
    LET h1 == [h EXCEPT !.m_packetNumber = packNum] IN
    IF IsShort(h1)
    THEN IF U32Less(packNum, 257) THEN SetPacketLength(h1, ONE_OCTECT)
         ELSE IF U32Less(packNum, 65537) THEN SetPacketLength(h1, TWO_OCTECTS)
         ELSE SetPacketLength(h1, FOUR_OCTECTS)
    ELSE h1

\* Faulty variant: the packet number is stored and the width is left alone.
SetPacketNumber_noDerive(h, packNum) == [h EXCEPT !.m_packetNumber = packNum]

SetPacketNumber(h, packNum) ==
    LET h1 == [h EXCEPT !.m_packetNumber = packNum] IN
    IF IsShort(h1)
    THEN IF U32Less(packNum, 256) THEN SetPacketLength(h1, ONE_OCTECT)
         ELSE IF U32Less(packNum, 65536) THEN SetPacketLength(h1, TWO_OCTECTS)
         ELSE SetPacketLength(h1, FOUR_OCTECTS)
    ELSE h1

\* Setters guarded by NS_ASSERT: [hdr, status].
Done(h) == [hdr |-> h, status |-> "ok"]
Abort(h, kind) == [hdr |-> h, status |-> kind]

SetVersion(h, version) ==
    IF HasVersion(h) THEN Done([h EXCEPT !.m_version = version])
    ELSE Abort(h, "InvalidFieldAccess")

SetSpinBit(h, spinBit) ==
    IF IsShort(h) THEN Done([h EXCEPT !.m_s = spinBit])
    ELSE Abort(h, "InvalidFieldAccess")

SetKeyPhaseBit(h, keyPhaseBit) ==
    IF IsShort(h) THEN Done([h EXCEPT !.m_k = keyPhaseBit])
    ELSE Abort(h, "InvalidFieldAccess")

---------------------------------------------------------------------------
(* Getters guarded by NS_ASSERT.                                           *)

\* Faulty variant: the NS_ASSERT is missing.
GetVersion_unchecked(h) == Ok(h.m_version)

GetVersion(h) ==
    IF HasVersion(h) THEN Ok(h.m_version) ELSE Fail("InvalidFieldAccess")

GetKeyPhaseBit(h) ==
    IF IsShort(h) THEN Ok(h.m_k) ELSE Fail("InvalidFieldAccess")

GetSpinBit(h) ==
    IF IsShort(h) THEN Ok(h.m_s) ELSE Fail("InvalidFieldAccess")

GetConnectionId(h) ==
    IF HasConnectionId(h) THEN Ok(h.m_connectionId) ELSE Fail("InvalidFieldAccess")

---------------------------------------------------------------------------
(* Factories.                                                              *)

CreateLong(type, connectionId, version, packetNumber) ==
    LET h1 == SetFormat(QuicHeader, LONG)
        h2 == SetType(h1, type)
        h3 == SetConnectionID(h2, connectionId)
        h4 == SetVersion(h3, version).hdr
    IN  SetPacketNumber(h4, packetNumber)

CreateInitial(connectionId, version, packetNumber) ==
    CreateLong(INITIAL, connectionId, version, packetNumber)

CreateRetry(connectionId, version, packetNumber) ==
    CreateLong(RETRY, connectionId, version, packetNumber)

CreateHandshake(connectionId, version, packetNumber) ==
    CreateLong(HANDSHAKE, connectionId, version, packetNumber)

Create0RTT(connectionId, version, packetNumber) ==
    CreateLong(ZRTT_PROTECTED, connectionId, version, packetNumber)

CreateShort(connectionId, packetNumber, connectionIdFlag, keyPhaseBit, spinBit) ==
    LET h1 == SetFormat(QuicHeader, SHORT)
        h2 == SetSpinBit(h1, spinBit).hdr
        h3 == SetKeyPhaseBit(h2, keyPhaseBit).hdr
        h4 == SetPacketNumber(h3, packetNumber)
    IN  IF connectionIdFlag THEN SetConnectionID(h4, connectionId) ELSE h4

\* The version argument is ignored: the version is forced to 0.
CreateVersionNegotiation(connectionId, version) ==
    LET h1 == SetFormat(QuicHeader, LONG)
        h2 == SetConnectionID(h1, connectionId)
    IN  SetVersion(h2, U32(0)).hdr

---------------------------------------------------------------------------
(* Serialize.                                                              *)

\* uint8_t t, as Serialize computes it (8-bit arithmetic).
FlagsByte(h) ==
    LET t == (h.m_form * 128 + h.m_fixed * 64) % 256 IN
    IF h.m_form # 0
    THEN (t + h.m_type * 16) % 256
    ELSE (t + h.m_s * 32 + h.m_k * 4 + h.m_packetLength) % 256

\* The bytes Serialize writes, in order; the cursor advances by their number.
SerializeBytes(h) ==
    IF h.m_form # 0
    THEN WriteU8(FlagsByte(h))
         \o WriteHtonU32(h.m_version)
         \o WriteU8(h.m_DCIDLength)
         \o WriteHtonU64(h.m_connectionId)
         \o WriteU8(h.m_SCIDLength)
         \o WriteHtonU64(h.m_SCID)
         \o (IF ~IsVersionNegotiation(h) THEN WriteHtonU32(h.m_packetNumber) ELSE <<>>)
    ELSE WriteU8(FlagsByte(h))
         \o (IF HasConnectionId(h) THEN WriteHtonU64(h.m_connectionId) ELSE <<>>)
         \o (CASE h.m_packetLength = ONE_OCTECT -> WriteU8(h.m_packetNumber.lo % 256)
               [] h.m_packetLength = TWO_OCTECTS -> WriteHtonU16(h.m_packetNumber.lo)
               [] h.m_packetLength = FOUR_OCTECTS -> WriteHtonU32(h.m_packetNumber)
               [] OTHER -> <<>>)

Serialize(h) ==
    IF ~(h.m_type # NONE \/ h.m_form = SHORT)
    THEN [status |-> "UnassignedLongType", bytes |-> <<>>]
    ELSE [status |-> "ok", bytes |-> SerializeBytes(h)]

---------------------------------------------------------------------------
(* Deserialize.                                                            *)

\* Faulty variant: the mask takes bit 6 as well.
DecodeLongType_wideMask(t) == (t \div 16) % 8

\* (t & 0x30) >> 4
DecodeLongType(t) == (t \div 16) % 4

\* [hdr, status, value, nbytes]: the header as left by the call, how the call
\* ended, the value returned and the number of bytes read from the buffer.
Deserialize(h, b) ==
    LET t  == ReadU8(b, 0)
        h1 == [h EXCEPT !.m_form = (t \div 128) % 2]
        h2 == IF IsShort(h1)
              THEN [h1 EXCEPT !.m_s = (t \div 32) % 2, !.m_k = (t \div 4) % 2]
              ELSE SetType(h1, DecodeLongType(t))
    IN
    IF ~(h2.m_type # NONE \/ h2.m_form = SHORT)
    THEN [hdr |-> h2, status |-> "UnassignedLongType", value |-> 0, nbytes |-> 1]
    ELSE
    LET hasCid == HasConnectionId(h2)
        h3   == IF hasCid THEN SetConnectionID(h2, ReadNtohU64(b, 1)) ELSE h2
        pos3 == IF hasCid THEN 9 ELSE 1
    IN
    IF IsLong(h3)
    THEN LET sv == SetVersion(h3, ReadNtohU32(b, pos3)) IN
         IF sv.status # "ok"
         THEN [hdr |-> sv.hdr, status |-> sv.status, value |-> 0, nbytes |-> pos3 + 4]
         ELSE LET vn   == IsVersionNegotiation(sv.hdr)
                  h5   == IF ~vn
                          THEN SetPacketNumber(sv.hdr, ReadNtohU32(b, pos3 + 4))
                          ELSE sv.hdr
                  pos5 == IF ~vn THEN pos3 + 8 ELSE pos3 + 4
                  size == GetSerializedSize(h5)
              IN  [hdr |-> h5, status |-> size.status, value |-> size.value,
                   nbytes |-> pos5]
    ELSE LET len  == h3.m_packetLength
             h5   == CASE len = ONE_OCTECT -> SetPacketNumber(h3, U32(ReadU8(b, pos3)))
                       [] len = TWO_OCTECTS -> SetPacketNumber(h3, U32(ReadNtohU16(b, pos3)))
                       [] len = FOUR_OCTECTS -> SetPacketNumber(h3, ReadNtohU32(b, pos3))
                       [] OTHER -> h3
             pos5 == CASE len = ONE_OCTECT -> pos3 + 1
                       [] len = TWO_OCTECTS -> pos3 + 2
                       [] len = FOUR_OCTECTS -> pos3 + 4
                       [] OTHER -> pos3
             size == GetSerializedSize(h5)
         IN  [hdr |-> h5, status |-> size.status, value |-> size.value,
              nbytes |-> pos5]

---------------------------------------------------------------------------
(* operator==                                                              *)

HeaderEq(lhs, rhs) ==
    IF lhs.m_form = rhs.m_form
    THEN IF lhs.m_form # 0
         THEN /\ lhs.m_type = rhs.m_type
              /\ lhs.m_version = rhs.m_version
              /\ lhs.m_DCIDLength = rhs.m_DCIDLength
              /\ lhs.m_connectionId = rhs.m_connectionId
              /\ lhs.m_SCIDLength = rhs.m_SCIDLength
              /\ lhs.m_SCID = rhs.m_SCID
              /\ lhs.m_packetNumber = rhs.m_packetNumber
         ELSE /\ lhs.m_s = rhs.m_s
              /\ lhs.m_k = rhs.m_k
              /\ lhs.m_packetLength = rhs.m_packetLength
              /\ lhs.m_connectionId = rhs.m_connectionId
              /\ lhs.m_packetNumber = rhs.m_packetNumber
    ELSE FALSE

---------------------------------------------------------------------------
(* The state machine.                                                      *)
(*   hdr  the sender's header object                                       *)
(*   buf  the buffer region Serialize wrote into                           *)
(*   rx   the receiver's header object                                     *)
(*   pc   "build": hdr is being built; "read": a field or the size of hdr  *)
(*        was read; "parsed": hdr was produced by Deserialize; "sent": hdr *)
(*        was serialized into buf; "received": rx was deserialized from    *)
(*        buf; "aborted": a failed NS_ASSERT or NS_FATAL_ERROR stopped the *)
(*        process.  A header is final once read, serialized or produced by *)
(*        Deserialize; the next packet starts with Construct.              *)
(*   res  the outcome of the last call: its name, how it ended, the value  *)
(*        it returned, the distance the buffer cursor moved, and the       *)
(*        packet-number length the target held when the call began.  A     *)
(*        call that returns nothing and did not fail leaves Void.          *)

Call(op, status, value, nbytes, preLen) ==
    [op |-> op, status |-> status, value |-> value, nbytes |-> nbytes,
     preLen |-> preLen]

Void == Call("void", "ok", 0, 0, 0)

EmptyBuf == <<>>

PcOf(status) == IF status = "ok" THEN "build" ELSE "aborted"

Init ==
    /\ hdr = QuicHeader
    /\ buf = EmptyBuf
    /\ rx = QuicHeader
    /\ pc = "build"
    /\ res = Void

\* A factory fills a default-constructed header: hdr becomes `h`.
New(h) ==
    /\ pc = "build"
    /\ hdr = QuicHeader
    /\ hdr' = h
    /\ buf' = EmptyBuf
    /\ rx' = QuicHeader
    /\ pc' = "build"
    /\ res' = Void

\* A setter without precondition ran on hdr.
Set(h) ==
    /\ pc = "build"
    /\ hdr' = h
    /\ res' = Void
    /\ UNCHANGED <<buf, rx, pc>>

\* A setter guarded by NS_ASSERT ran on hdr; r = [hdr, status].
SetChecked(op, r) ==
    /\ pc = "build"
    /\ hdr' = r.hdr
    /\ res' = IF r.status = "ok" THEN Void ELSE Call(op, r.status, 0, 0, 0)
    /\ pc' = PcOf(r.status)
    /\ UNCHANGED <<buf, rx>>

\* A getter ran on hdr; r = [status, value].
Get(op, r) ==
    /\ pc = "build"
    /\ res' = Call(op, r.status, r.value, 0, 0)
    /\ pc' = IF r.status = "ok" THEN "read" ELSE "aborted"
    /\ UNCHANGED <<hdr, buf, rx>>

\* A new header object is default-constructed; a new buffer and a new
\* receiver object go with it.
Construct ==
    /\ hdr' = QuicHeader
    /\ buf' = EmptyBuf
    /\ rx' = QuicHeader
    /\ pc' = "build"
    /\ res' = Void

DoCreateInitial ==
    \E c \in ConnIds, v \in Versions, p \in PacketNumbers :
        New(CreateInitial(c, v, p))

DoCreateRetry ==
    \E c \in ConnIds, v \in Versions, p \in PacketNumbers :
        New(CreateRetry(c, v, p))

DoCreateHandshake ==
    \E c \in ConnIds, v \in Versions, p \in PacketNumbers :
        New(CreateHandshake(c, v, p))

DoCreate0RTT ==
    \E c \in ConnIds, v \in Versions, p \in PacketNumbers :
        New(Create0RTT(c, v, p))

DoCreateShort ==
    \E c \in ConnIds, p \in PacketNumbers, f \in BOOLEAN, k \in Bits, s \in Bits :
        New(CreateShort(c, p, f, k, s))

DoCreateVersionNegotiation ==
    \E c \in ConnIds, v \in Versions :
        New(CreateVersionNegotiation(c, v))

DoSetFormat == \E f \in {SHORT, LONG} : Set(SetFormat(hdr, f))

DoSetType == \E t \in TypeBytes : Set(SetType(hdr, t))

DoSetPacketLength ==
    \E l \in PacketLengths : Set(SetPacketLength(hdr, l))

DoSetConnectionID ==
    \E c \in ConnIds : Set(SetConnectionID(hdr, c))

DoSetPacketNumber ==
    \E p \in PacketNumbers : Set(SetPacketNumber(hdr, p))

DoSetVersion == \E v \in Versions : SetChecked("SetVersion", SetVersion(hdr, v))

DoSetSpinBit == \E s \in Bits : SetChecked("SetSpinBit", SetSpinBit(hdr, s))

DoSetKeyPhaseBit ==
    \E k \in Bits : SetChecked("SetKeyPhaseBit", SetKeyPhaseBit(hdr, k))

DoGetVersion == Get("GetVersion", GetVersion(hdr))

DoGetSpinBit == Get("GetSpinBit", GetSpinBit(hdr))

DoGetKeyPhaseBit == Get("GetKeyPhaseBit", GetKeyPhaseBit(hdr))

DoGetConnectionId == Get("GetConnectionId", GetConnectionId(hdr))

DoGetSerializedSize == Get("GetSerializedSize", GetSerializedSize(hdr))

\* The sender serializes hdr at the start of the buffer.
DoSerialize ==
    /\ pc = "build"
    /\ LET r == Serialize(hdr) IN
       /\ buf' = Pad(r.bytes)
       /\ res' = Call("Serialize", r.status, 0, Len(r.bytes), 0)
       /\ pc' = IF r.status = "ok" THEN "sent" ELSE "aborted"
    /\ UNCHANGED <<hdr, rx>>

\* Deserialize runs on hdr, whatever it holds, over incoming bytes.
DoDeserialize ==
    /\ pc = "build"
    /\ \E f \in (IF hdr = QuicHeader THEN AllFlagBytes ELSE FlagBytes), body \in Bodies :
        LET r == Deserialize(hdr, SubSeq(<<f>> \o body, 1, BufSize)) IN
        /\ hdr' = r.hdr
        /\ res' = Call("Deserialize", r.status, r.value, r.nbytes, hdr.m_packetLength)
        /\ pc' = IF r.status = "ok" THEN "parsed" ELSE "aborted"
    /\ UNCHANGED <<buf, rx>>

\* The receiver pre-sets the packet-number length of its fresh header.
RxSetPacketLength ==
    /\ pc = "sent"
    /\ rx = QuicHeader
    /\ \E l \in PacketLengths : rx' = SetPacketLength(rx, l)
    /\ res' = Void
    /\ UNCHANGED <<hdr, buf, pc>>

\* The receiver deserializes the buffer the sender wrote.
RxDeserialize ==
    /\ pc = "sent"
    /\ LET r == Deserialize(rx, buf) IN
       /\ rx' = r.hdr
       /\ res' = Call("RxDeserialize", r.status, r.value, r.nbytes, rx.m_packetLength)
       /\ pc' = IF r.status = "ok" THEN "received" ELSE "aborted"
    /\ UNCHANGED <<hdr, buf>>

Next ==
    \/ Construct
    \/ DoCreateInitial
    \/ DoCreateRetry
    \/ DoCreateHandshake
    \/ DoCreate0RTT
    \/ DoCreateShort
    \/ DoCreateVersionNegotiation
    \/ DoSetFormat
    \/ DoSetType
    \/ DoSetPacketLength
    \/ DoSetConnectionID
    \/ DoSetPacketNumber
    \/ DoSetVersion
    \/ DoSetSpinBit
    \/ DoSetKeyPhaseBit
    \/ DoGetVersion
    \/ DoGetSpinBit
    \/ DoGetKeyPhaseBit
    \/ DoGetConnectionId
    \/ DoGetSerializedSize
    \/ DoSerialize
    \/ DoDeserialize
    \/ RxSetPacketLength
    \/ RxDeserialize

Spec == Init /\ [][Next]_vars

---------------------------------------------------------------------------
(* Properties.                                                             *)

\* The header object the last Deserialize call ran on.
Target == IF res.op = "RxDeserialize" THEN rx ELSE hdr

Deserialized == res.op \in {"Deserialize", "RxDeserialize"} /\ res.status = "ok"

\* The minimal width of a packet number: One below 256, Two below 65536,
\* Four otherwise.
MinimalWidth(p) ==
    IF p.hi = 0 /\ p.lo < 256 THEN ONE_OCTECT
    ELSE IF p.hi = 0 THEN TWO_OCTECTS
    ELSE FOUR_OCTECTS

WellFormedShort(h) ==
    /\ h.m_form = SHORT
    /\ h.m_packetLength = MinimalWidth(h.m_packetNumber)
    /\ (~h.m_c => h.m_connectionId = U64(0, 0))

\* C1: a long header with a type in Initial..Retry (and a packet number on the
\* wire, version # 0) that is serialized and then deserialized into a
\* default-constructed header comes back equal under operator==.
C1_LongRoundTrip ==
    ( /\ pc = "received"
      /\ hdr.m_form = LONG
      /\ hdr.m_type \in {INITIAL, ZRTT_PROTECTED, HANDSHAKE, RETRY}
      /\ hdr.m_version # U32(0)
      /\ res.preLen = QuicHeader.m_packetLength )
    => HeaderEq(rx, hdr)

\* C2: a short header (its width derived from its packet number, its
\* connection id 0 when it carries none) that is serialized and then
\* deserialized into a fresh header whose packetNumberLength was pre-set to
\* the sender's comes back equal under operator==.
C2_ShortRoundTrip ==
    ( /\ pc = "received"
      /\ WellFormedShort(hdr)
      /\ res.preLen = hdr.m_packetLength )
    => HeaderEq(rx, hdr)

\* C3: the number of bytes Serialize writes equals the size
\* GetSerializedSize returns for the same header.
C3_SerializeWritesSerializedSize ==
    ( /\ res.op = "Serialize"
      /\ res.status = "ok"
      /\ GetSerializedSize(hdr).status = "ok" )
    => res.nbytes = GetSerializedSize(hdr).value

\* C4: the value Deserialize returns equals the number of bytes it read, and
\* equals GetSerializedSize of the header it populated.
C4_DeserializeReturnsBytesRead ==
    Deserialized =>
        /\ res.value = res.nbytes
        /\ res.value = GetSerializedSize(Target).value

\* C5: GetSerializedSize of a long header is 1 + 4 + 1 + 1 +
\* destinationConnectionIdLength + sourceConnectionIdLength bytes, plus 4
\* bytes of packet number unless version = 0.
C5_LongSerializedSize ==
    ( /\ res.op = "GetSerializedSize"
      /\ res.status = "ok"
      /\ hdr.m_form = LONG )
    => res.value = 1 + 4 + 1 + 1 + hdr.m_DCIDLength + hdr.m_SCIDLength
                   + (IF hdr.m_version = U32(0) THEN 0 ELSE 4)

\* C6 (as claimed): in every reachable state a short header's
\* packetNumberLength is the minimal width of its packetNumber.
C6_AlwaysMinimalWidth ==
    hdr.m_form = SHORT => hdr.m_packetLength = MinimalWidth(hdr.m_packetNumber)

\* C6 (amended): every step that gives a new packetNumber to a header that is
\* short afterwards leaves packetNumberLength at the minimal width of that
\* packetNumber.
C6_AssignmentDerivesWidth ==
    [][ ( /\ hdr'.m_form = SHORT
          /\ hdr'.m_packetNumber # hdr.m_packetNumber )
        => hdr'.m_packetLength = MinimalWidth(hdr'.m_packetNumber) ]_vars

C6_Witness ==
    /\ pc = "build"
    /\ hdr.m_form = SHORT
    /\ hdr.m_packetNumber = U32(65536)
    /\ hdr.m_packetLength = FOUR_OCTECTS
    /\ hdr.m_c

\* C7: byte 0 of a serialized long header has bit 7 = 1, bit 6 = fixedBit,
\* bits 5-4 = the long type and bits 3-0 = 0, for every assignable long type
\* other than None; byte 0 of a short header has bit 7 = 0, bit 6 = fixedBit,
\* bit 5 = spinBit, bits 4-3 = 0, bit 2 = keyPhaseBit and bits 1-0 = the
\* packetNumberLength code.
C7_FlagsByteLayout ==
    ( /\ res.op = "Serialize"
      /\ res.status = "ok" )
    => LET t == buf[1] IN
       IF hdr.m_form = LONG
       THEN /\ (t \div 128) % 2 = 1
            /\ (t \div 64) % 2 = hdr.m_fixed
            /\ (hdr.m_type <= RETRY => (t \div 16) % 4 = hdr.m_type)
            /\ t % 16 = 0
       ELSE /\ (t \div 128) % 2 = 0
            /\ (t \div 64) % 2 = hdr.m_fixed
            /\ (t \div 32) % 2 = hdr.m_s
            /\ (t \div 8) % 4 = 0
            /\ (t \div 4) % 2 = hdr.m_k
            /\ (hdr.m_packetLength <= FOUR_OCTECTS => t % 4 = hdr.m_packetLength)

\* C8: on every header under construction, GetVersion and SetVersion fail with
\* InvalidFieldAccess exactly when the form is Short; GetSpinBit,
\* GetKeyPhaseBit, SetSpinBit and SetKeyPhaseBit exactly when it is Long;
\* GetConnectionId exactly when it is Short without the connection-id flag.  A
\* call that does not fail returns the stored field, and a failing call leaves
\* the header as it was.  The outcome recorded for a getter that ran agrees.
C8_AccessorsGuardFormat ==
  /\ res.op = "GetVersion" =>
        IF hdr.m_form = SHORT THEN res.status = "InvalidFieldAccess"
        ELSE res.status = "ok" /\ res.value = hdr.m_version
  /\ res.op = "GetSpinBit" =>
        IF hdr.m_form = LONG THEN res.status = "InvalidFieldAccess"
        ELSE res.status = "ok" /\ res.value = hdr.m_s
  /\ res.op = "GetKeyPhaseBit" =>
        IF hdr.m_form = LONG THEN res.status = "InvalidFieldAccess"
        ELSE res.status = "ok" /\ res.value = hdr.m_k
  /\ res.op = "GetConnectionId" =>
        IF hdr.m_form = SHORT /\ ~hdr.m_c THEN res.status = "InvalidFieldAccess"
        ELSE res.status = "ok" /\ res.value = hdr.m_connectionId
  /\ res.op = "SetVersion" => res.status = "InvalidFieldAccess" /\ hdr.m_form = SHORT
  /\ res.op \in {"SetSpinBit", "SetKeyPhaseBit"} =>
        res.status = "InvalidFieldAccess" /\ hdr.m_form = LONG
  /\ pc = "build" =>
        /\ GetVersion(hdr) =
              IF hdr.m_form = SHORT THEN Fail("InvalidFieldAccess")
              ELSE Ok(hdr.m_version)
        /\ GetSpinBit(hdr) =
              IF hdr.m_form = LONG THEN Fail("InvalidFieldAccess") ELSE Ok(hdr.m_s)
        /\ GetKeyPhaseBit(hdr) =
              IF hdr.m_form = LONG THEN Fail("InvalidFieldAccess") ELSE Ok(hdr.m_k)
        /\ GetConnectionId(hdr) =
              IF hdr.m_form = SHORT /\ ~hdr.m_c THEN Fail("InvalidFieldAccess")
              ELSE Ok(hdr.m_connectionId)
        /\ \A v \in Versions :
              SetVersion(hdr, v) =
                 IF hdr.m_form = SHORT THEN Abort(hdr, "InvalidFieldAccess")
                 ELSE Done([hdr EXCEPT !.m_version = v])
        /\ \A b \in Bits :
              /\ SetSpinBit(hdr, b) =
                    IF hdr.m_form = LONG THEN Abort(hdr, "InvalidFieldAccess")
                    ELSE Done([hdr EXCEPT !.m_s = b])
              /\ SetKeyPhaseBit(hdr, b) =
                    IF hdr.m_form = LONG THEN Abort(hdr, "InvalidFieldAccess")
                    ELSE Done([hdr EXCEPT !.m_k = b])

\* GetConnectionId has failed on a short header without a connection id.
C8_Witness ==
    /\ pc = "aborted"
    /\ res.op = "GetConnectionId"
    /\ res.status = "InvalidFieldAccess"
    /\ hdr.m_form = SHORT
    /\ hdr.m_packetNumber = U32(256)

\* C9 (as claimed): Deserialize of a short header leaves packetNumberLength
\* as it was before the call.
C9_WidthUnchanged ==
    (Deserialized /\ Target.m_form = SHORT) => Target.m_packetLength = res.preLen

\* C9 (amended): after Deserialize of a short header returns,
\* packetNumberLength is the minimal width of the packet number that was read
\* (the width held before the call only chose how many bytes to read).
C9_WidthRederived ==
    (Deserialized /\ Target.m_form = SHORT)
    => Target.m_packetLength = MinimalWidth(Target.m_packetNumber)

\* Four bytes were read as the packet number 256, and the width became Two.
C9_Witness ==
    /\ res.op = "Deserialize"
    /\ res.status = "ok"
    /\ hdr.m_form = SHORT
    /\ res.preLen = FOUR_OCTECTS
    /\ hdr.m_packetNumber = U32(256)
    /\ hdr.m_packetLength = TWO_OCTECTS

\* C10: Deserialize into a default-constructed header reaches no fatal
\* condition, whatever the flags byte: the long type it decodes is in 0..3,
\* SetVersion runs on a long header only, and the packet-number length it
\* measures with is One, Two or Four.
C10_FreshDeserializeNeverFatal ==
    [][ ( \/ pc = "build" /\ hdr = QuicHeader /\ res'.op = "Deserialize"
          \/ pc = "sent" /\ rx = QuicHeader /\ res'.op = "RxDeserialize" )
        => LET h == IF res'.op = "Deserialize" THEN hdr' ELSE rx' IN
           /\ res'.status = "ok"
           /\ h.m_type \in INITIAL..RETRY
           /\ h.m_packetLength \in {ONE_OCTECT, TWO_OCTECTS, FOUR_OCTECTS} ]_vars

\* A fresh header has parsed the flags byte 0xF0 of a Retry packet.
C10_Witness ==
    /\ pc = "parsed"
    /\ res.op = "Deserialize"
    /\ hdr.m_form = LONG
    /\ hdr.m_type = RETRY
    /\ hdr.m_s = 0 /\ hdr.m_k = 0 /\ ~hdr.m_c
    /\ hdr.m_version = U32(256)
    /\ hdr.m_packetNumber = U32(256)

=============================================================================
